---- MODULE Spec2Model ----
(***************************************************************************)
(* A model of nufb.wrappers: the Manifest and Module wrappers over a raw   *)
(* flatpak-builder manifest mapping.  Python objects that are shared by    *)
(* reference (the raw modules list, each module's mapping, each Module     *)
(* wrapper) live in heaps indexed by an identity; values are tagged        *)
(* records so that isinstance() is a test of the tag.                      *)
(***************************************************************************)
EXTENDS Integers, Sequences, FiniteSets, TLC

VARIABLES pc, data, lists, dicts, wrappers,
          _id, _modules, _raw_modules, _init_module, _finish_module,
          last

vars == <<pc, data, lists, dicts, wrappers,
          _id, _modules, _raw_modules, _init_module, _finish_module, last>>

----------------------------------------------------------------------------
(* Bounds of the model *)

\* longest modules list of the raw document handed to the constructor
MaxInitModules == 1
\* number of module mappings that may exist before add_module stops being called
MaxDicts == 2

\* longest sources list a module may get before the caller stops appending
MaxSources == 2

----------------------------------------------------------------------------
(* nufb.const *)

MANIFEST_BRANCH == "branch"
MANIFEST_BRANCH_DEFAULT == "master"
MANIFEST_ID == "id"
MANIFEST_APP_ID == "app-id"
MANIFEST_MODULES == "modules"
MODULE_NAME == "name"
MODULE_SOURCES == "sources"
INIT_MODULE_NAME == "init"
FINISH_MODULE_NAME == "finish"

----------------------------------------------------------------------------
(* Python values: a record of the type's tag t and a payload whose field is  *)
(* named after the type, so that values of two types never compare payloads *)

\* the key is not in the mapping
Absent == [t |-> "absent"]
\* Python's None
NoneV == [t |-> "none"]
Str(s) == [t |-> "str", s |-> s]
\* a value that is neither a string nor a list
Num(n) == [t |-> "int", n |-> n]
\* a reference to the list object lists[l]
List(l) == [t |-> "list", l |-> l]
\* a reference to the Module wrapper wrappers[w]
ModuleRef(w) == [t |-> "Module", w |-> w]
\* the list of Module wrappers held by Manifest._modules
WrapperList(ws) == [t |-> "wrappers", ws |-> ws]
\* a raised exception; key is the mapping key whose lookup raised it
Raise(kind, key) == [t |-> kind, key |-> key]

IsRaise(r) == r.t \in {"TypeError", "MissingFieldError", "ValueError"}

\* "v = <expression>; K": the rest K of a method with the value bound
With(v, K(_)) == K(v)

\* "r = <call>; K": an exception raised by the call leaves the method with the
\* state the call left, and otherwise the method goes on with its result
Try(r, K(_)) == IF IsRaise(r.res) THEN r ELSE K(r)

\* list.insert(i, x): a negative index counts from the end, and an index beyond
\* either end is clamped to that end
PyInsert(seq, i, x) ==
    LET n == Len(seq)
        j0 == IF i < 0 THEN i + n ELSE i
        j == IF j0 < 0 THEN 0 ELSE IF j0 > n THEN n ELSE j0
    IN SubSeq(seq, 1, j) \o <<x>> \o SubSeq(seq, j + 1, n)

\* the sequence without its j-th element: the list after del list[j - 1]
RemoveAt(seq, j) == SubSeq(seq, 1, j - 1) \o SubSeq(seq, j + 1, Len(seq))

----------------------------------------------------------------------------
(* nufb.utils *)

\* expect_type(value, str)
expect_type(value) ==
    IF value.t = "str" THEN NoneV ELSE Raise("TypeError", "")

\* ensure_string(dictionary, key, default); default NoneV when none is given
ensure_string(dictionary, key, default) ==
    LET value == dictionary[key]
    IN IF value = Absent
         THEN IF default = NoneV THEN Raise("MissingFieldError", key) ELSE default
         ELSE IF value.t = "str" THEN value ELSE Raise("TypeError", key)

\* ensure_list written with dictionary.get(key, []): the new list of a missing
\* key is returned and not stored
ensure_list_get(dictionary, key, ls) ==
    LET value == dictionary[key]
    IN IF value = Absent
         THEN [res |-> List(Len(ls) + 1),
               dictionary |-> dictionary,
               lists |-> Append(ls, <<>>)]
         ELSE IF value.t = "list"
                THEN [res |-> value, dictionary |-> dictionary, lists |-> ls]
                ELSE [res |-> Raise("TypeError", key),
                      dictionary |-> dictionary, lists |-> ls]

\* ensure_list(dictionary, key): the result, and the mapping and the heap of
\* lists after the call
ensure_list(dictionary, key, ls) ==
    LET value == dictionary[key]
    IN IF value = Absent
         THEN [res |-> List(Len(ls) + 1),
               dictionary |-> [dictionary EXCEPT ![key] = List(Len(ls) + 1)],
               lists |-> Append(ls, <<>>)]
         ELSE IF value.t = "list"
                THEN [res |-> value, dictionary |-> dictionary, lists |-> ls]
                ELSE [res |-> Raise("TypeError", key),
                      dictionary |-> dictionary, lists |-> ls]

----------------------------------------------------------------------------
(* The objects as one record, so that a method is an operator from the     *)
(* state before the call to its result and the state after it.             *)

Cur == [data |-> data, lists |-> lists, dicts |-> dicts, wrappers |-> wrappers,
        _id |-> _id, _modules |-> _modules, _raw_modules |-> _raw_modules,
        _init_module |-> _init_module, _finish_module |-> _finish_module]

\* the mapping wrapped by Module wrapper w (Module.data)
ModuleData(s, w) == s.dicts[s.wrappers[w]]

----------------------------------------------------------------------------
(* nufb.wrappers.Module *)

\* Module.new(name): a fresh mapping holding the name, and a wrapper of it
Module_new(s, name) ==
    [res |-> ModuleRef(Len(s.wrappers) + 1),
     s |-> [s EXCEPT !.dicts = Append(@, [k \in {MODULE_NAME, MODULE_SOURCES} |->
                                             IF k = MODULE_NAME THEN name ELSE Absent]),
                     !.wrappers = Append(@, Len(s.dicts) + 1)]]

\* Module.name (read)
Module_name(s, w) == ensure_string(ModuleData(s, w), MODULE_NAME, NoneV)

\* Module.name (write) that stores the value before it validates it
Module_name_set_unchecked(s, w, value) ==
    [res |-> expect_type(value),
     s |-> [s EXCEPT !.dicts[s.wrappers[w]][MODULE_NAME] = value]]

\* Module.name (write)
Module_name_set(s, w, value) ==
    IF IsRaise(expect_type(value))
      THEN [res |-> expect_type(value), s |-> s]
      ELSE [res |-> NoneV,
            s |-> [s EXCEPT !.dicts[s.wrappers[w]][MODULE_NAME] = value]]

\* Module.sources (read)
Module_sources(s, w) ==
    With(ensure_list(ModuleData(s, w), MODULE_SOURCES, s.lists), LAMBDA r :
         [res |-> r.res,
          s |-> [s EXCEPT !.dicts[s.wrappers[w]] = r.dictionary, !.lists = r.lists]])

----------------------------------------------------------------------------
(* nufb.wrappers.Manifest *)

\* Manifest.__init__ that rejects a document holding either id key
Manifest_init_either(d) ==
    IF d[MANIFEST_ID] # Absent \/ d[MANIFEST_APP_ID] # Absent
      THEN Raise("ValueError", "")
      ELSE NoneV

\* Manifest.__init__: the exception it raises, or NoneV
Manifest_init(d) ==
    IF d[MANIFEST_ID] # Absent /\ d[MANIFEST_APP_ID] # Absent
      THEN Raise("ValueError", "")
      ELSE NoneV

\* "not self._id": None and the empty string are both falsy
NotId(cached) == cached = NoneV \/ cached = Str("")

\* Manifest.id (read) whose handlers catch every exception of the two lookups
Manifest_id_catch_all(s) ==
    IF ~NotId(s._id)
      THEN [res |-> s._id, s |-> s]
      ELSE With(ensure_string(s.data, MANIFEST_ID, NoneV), LAMBDA r1 :
           IF IsRaise(r1)
             THEN With(ensure_string(s.data, MANIFEST_APP_ID, NoneV), LAMBDA r2 :
                  IF IsRaise(r2)
                    THEN [res |-> Raise("TypeError", MANIFEST_ID), s |-> s]
                    ELSE [res |-> r2, s |-> [s EXCEPT !._id = r2]])
             ELSE [res |-> r1, s |-> [s EXCEPT !._id = r1]])

\* Manifest.id (read)
Manifest_id(s) ==
    IF ~NotId(s._id)
      THEN [res |-> s._id, s |-> s]
      ELSE With(ensure_string(s.data, MANIFEST_ID, NoneV), LAMBDA r1 :
           IF r1.t = "TypeError"
             THEN With(ensure_string(s.data, MANIFEST_APP_ID, NoneV), LAMBDA r2 :
                  IF r2.t = "TypeError"
                    THEN [res |-> r1, s |-> s]
                    ELSE IF IsRaise(r2)
                           THEN [res |-> r2, s |-> s]
                           ELSE [res |-> r2, s |-> [s EXCEPT !._id = r2]])
             ELSE IF IsRaise(r1)
                    THEN [res |-> r1, s |-> s]
                    ELSE [res |-> r1, s |-> [s EXCEPT !._id = r1]])

\* Manifest.id (write) that leaves the legacy key in the document
Manifest_id_set_keep_legacy(s, value) ==
    IF IsRaise(expect_type(value))
      THEN [res |-> expect_type(value), s |-> s]
      ELSE [res |-> NoneV,
            s |-> [s EXCEPT !._id = value, !.data[MANIFEST_ID] = value]]

\* Manifest.id (write)
Manifest_id_set(s, value) ==
    IF IsRaise(expect_type(value))
      THEN [res |-> expect_type(value), s |-> s]
      ELSE [res |-> NoneV,
            s |-> [s EXCEPT !._id = value,
                            !.data[MANIFEST_ID] = value,
                            !.data[MANIFEST_APP_ID] = Absent]]

\* Manifest.branch (read) written with data.setdefault: the default is stored
\* under 'branch' when the key is missing
Manifest_branch_setdefault(s) ==
    [res |-> ensure_string(s.data, MANIFEST_BRANCH, Str(MANIFEST_BRANCH_DEFAULT)),
     s |-> IF s.data[MANIFEST_BRANCH] = Absent
             THEN [s EXCEPT !.data[MANIFEST_BRANCH] = Str(MANIFEST_BRANCH_DEFAULT)]
             ELSE s]

\* Manifest.branch (read)
Manifest_branch(s) ==
    [res |-> ensure_string(s.data, MANIFEST_BRANCH, Str(MANIFEST_BRANCH_DEFAULT)),
     s |-> s]

\* Manifest.branch (write)
Manifest_branch_set(s, value) ==
    IF IsRaise(expect_type(value))
      THEN [res |-> expect_type(value), s |-> s]
      ELSE [res |-> NoneV, s |-> [s EXCEPT !.data[MANIFEST_BRANCH] = value]]

\* Manifest._process_modules that wraps a copy of each mapping of the list
process_modules_copies(s) ==
    With(ensure_list(s.data, MANIFEST_MODULES, s.lists), LAMBDA r :
         IF IsRaise(r.res)
           THEN [res |-> r.res, s |-> s]
           ELSE [res |-> NoneV,
                 s |-> [s EXCEPT
                          !.data = r.dictionary,
                          !.lists = r.lists,
                          !._raw_modules = r.res,
                          !.dicts = @ \o [i \in 1..Len(r.lists[r.res.l]) |->
                                            s.dicts[r.lists[r.res.l][i]]],
                          !.wrappers = @ \o [i \in 1..Len(r.lists[r.res.l]) |->
                                               Len(s.dicts) + i],
                          !._modules =
                              WrapperList([i \in 1..Len(r.lists[r.res.l]) |->
                                             Len(s.wrappers) + i])]])

\* Manifest._process_modules
process_modules(s) ==
    With(ensure_list(s.data, MANIFEST_MODULES, s.lists), LAMBDA r :
         IF IsRaise(r.res)
           THEN [res |-> r.res, s |-> s]
           ELSE [res |-> NoneV,
                 s |-> [s EXCEPT
                          !.data = r.dictionary,
                          !.lists = r.lists,
                          !._raw_modules = r.res,
                          !.wrappers = @ \o r.lists[r.res.l],
                          !._modules =
                              WrapperList([i \in 1..Len(r.lists[r.res.l]) |->
                                             Len(s.wrappers) + i])]])

\* Manifest.raw_modules (read)
Manifest_raw_modules(s) ==
    IF s._raw_modules = NoneV
      THEN Try(process_modules(s), LAMBDA r : [res |-> r.s._raw_modules, s |-> r.s])
      ELSE [res |-> s._raw_modules, s |-> s]

\* Manifest.modules (read) without the test of the cache: every read builds
\* the two sequences again
Manifest_modules_rebuild(s) ==
    Try(process_modules(s), LAMBDA r : [res |-> r.s._modules, s |-> r.s])

\* Manifest.modules (read)
Manifest_modules(s) ==
    IF s._modules = NoneV
      THEN Try(process_modules(s), LAMBDA r : [res |-> r.s._modules, s |-> r.s])
      ELSE [res |-> s._modules, s |-> s]

\* Manifest.add_module that tests the position with "if not position", which
\* takes position 0 for an omitted one
Manifest_add_module_falsy_position(s, w, position) ==
    Try(Manifest_raw_modules(s), LAMBDA r1 :
    Try(Manifest_modules(r1.s), LAMBDA r2 :
        IF position = NoneV \/ position = Num(0)
          THEN [res |-> NoneV,
                s |-> [r2.s EXCEPT
                         !.lists[r1.res.l] = Append(@, r2.s.wrappers[w]),
                         !._modules = WrapperList(Append(r2.res.ws, w))]]
          ELSE [res |-> NoneV,
                s |-> [r2.s EXCEPT
                         !.lists[r1.res.l] = PyInsert(@, position.n, r2.s.wrappers[w]),
                         !._modules = WrapperList(PyInsert(r2.res.ws, position.n, w))]]))

\* Manifest.add_module that inserts the mapping at the position and appends
\* the wrapper
Manifest_add_module_append_wrapper(s, w, position) ==
    Try(Manifest_raw_modules(s), LAMBDA r1 :
    Try(Manifest_modules(r1.s), LAMBDA r2 :
        [res |-> NoneV,
         s |-> [r2.s EXCEPT
                  !.lists[r1.res.l] =
                      IF position = NoneV
                        THEN Append(@, r2.s.wrappers[w])
                        ELSE PyInsert(@, position.n, r2.s.wrappers[w]),
                  !._modules = WrapperList(Append(r2.res.ws, w))]]))

\* Manifest.add_module(module, position); position NoneV appends
Manifest_add_module(s, w, position) ==
    Try(Manifest_raw_modules(s), LAMBDA r1 :
    Try(Manifest_modules(r1.s), LAMBDA r2 :
        IF position = NoneV
          THEN [res |-> NoneV,
                s |-> [r2.s EXCEPT
                         !.lists[r1.res.l] = Append(@, r2.s.wrappers[w]),
                         !._modules = WrapperList(Append(r2.res.ws, w))]]
          ELSE [res |-> NoneV,
                s |-> [r2.s EXCEPT
                         !.lists[r1.res.l] = PyInsert(@, position.n, r2.s.wrappers[w]),
                         !._modules = WrapperList(PyInsert(r2.res.ws, position.n, w))]]))

\* the loop of Manifest.find_module returning the last match instead of the
\* first
RECURSIVE find_last(_, _, _, _)
find_last(s, ms, i, name) ==
    IF i > Len(ms) THEN NoneV
    ELSE With(Module_name(s, ms[i]), LAMBDA nm :
         With(find_last(s, ms, i + 1, name), LAMBDA later :
         IF nm.t = "TypeError" THEN later
         ELSE IF IsRaise(nm) THEN nm
         ELSE IF nm = Str(name) /\ later = NoneV THEN ModuleRef(ms[i])
         ELSE later))

\* the loop of Manifest.find_module from the i-th wrapper on: a TypeError of
\* Module.name is swallowed, any other exception leaves the loop
RECURSIVE find_from(_, _, _, _)
find_from(s, ms, i, name) ==
    IF i > Len(ms) THEN NoneV
    ELSE With(Module_name(s, ms[i]), LAMBDA nm :
         IF nm.t = "TypeError" THEN find_from(s, ms, i + 1, name)
         ELSE IF IsRaise(nm) THEN nm
         ELSE IF nm = Str(name) THEN ModuleRef(ms[i])
         ELSE find_from(s, ms, i + 1, name))

\* Manifest.find_module(name) that memoizes an 'init' module it finds
Manifest_find_module_memoizing(s, name) ==
    Try(Manifest_modules(s), LAMBDA r :
        With(find_from(r.s, r.res.ws, 1, name), LAMBDA found :
             [res |-> found,
              s |-> IF name = INIT_MODULE_NAME /\ found.t = "Module"
                      THEN [r.s EXCEPT !._init_module = found]
                      ELSE r.s]))

\* Manifest.find_module(name)
Manifest_find_module(s, name) ==
    Try(Manifest_modules(s), LAMBDA r :
        [res |-> find_from(r.s, r.res.ws, 1, name), s |-> r.s])

\* Manifest.init_module (read) without the memo: every read looks the module
\* up, and creates and inserts it when it finds none
Manifest_init_module_unmemoized(s) ==
    Try(Manifest_find_module(s, INIT_MODULE_NAME), LAMBDA f :
        IF f.res = NoneV
          THEN With(Module_new(f.s, Str(INIT_MODULE_NAME)), LAMBDA m :
               Try(Manifest_add_module([m.s EXCEPT !._init_module = m.res],
                                       m.res.w, Num(0)), LAMBDA a :
                   [res |-> a.s._init_module, s |-> a.s]))
          ELSE [res |-> f.res, s |-> [f.s EXCEPT !._init_module = f.res]])

\* Manifest.init_module (read)
Manifest_init_module(s) ==
    IF s._init_module = NoneV
      THEN Try(Manifest_find_module(s, INIT_MODULE_NAME), LAMBDA f :
           IF f.res = NoneV
             THEN With(Module_new(f.s, Str(INIT_MODULE_NAME)), LAMBDA m :
                  Try(Manifest_add_module([m.s EXCEPT !._init_module = m.res],
                                          m.res.w, Num(0)), LAMBDA a :
                      [res |-> a.s._init_module, s |-> a.s]))
             ELSE [res |-> f.res, s |-> [f.s EXCEPT !._init_module = f.res]])
      ELSE [res |-> s._init_module, s |-> s]

\* Manifest.finish_module (read)
Manifest_finish_module(s) ==
    IF s._finish_module = NoneV
      THEN Try(Manifest_find_module(s, FINISH_MODULE_NAME), LAMBDA f :
           IF f.res = NoneV
             THEN With(Module_new(f.s, Str(FINISH_MODULE_NAME)), LAMBDA m :
                  Try(Manifest_add_module([m.s EXCEPT !._finish_module = m.res],
                                          m.res.w, NoneV), LAMBDA a :
                      [res |-> a.s._finish_module, s |-> a.s]))
             ELSE [res |-> f.res, s |-> [f.s EXCEPT !._finish_module = f.res]])
      ELSE [res |-> s._finish_module, s |-> s]

----------------------------------------------------------------------------
(* The raw documents a caller may hand to the constructor, and the values  *)
(* it may pass to the wrappers.                                            *)

\* values found under 'id', 'app-id' and 'branch'
IdValues == {Absent, Str("org.a"), Str(""), Num(5)}
AppIdValues == {Absent, Str("org.b"), Num(5)}
BranchValues == {Absent, Str("dev"), Num(5)}
\* values found under a module's 'name'
NameValues == {Absent, Str(INIT_MODULE_NAME), Str(FINISH_MODULE_NAME), Num(5)}
\* values written through a setter
WrittenValues == {Str("org.c"), Str(""), Num(5)}
WrittenNames == {Str(INIT_MODULE_NAME), Str(FINISH_MODULE_NAME), Num(5)}
\* names looked up with find_module
SearchedNames == {INIT_MODULE_NAME, FINISH_MODULE_NAME}

\* the module mapping {'name': name}, or {} when the name is Absent
NewDict(name) ==
    [k \in {MODULE_NAME, MODULE_SOURCES} |-> IF k = MODULE_NAME THEN name ELSE Absent]

\* the sequences of at most n module mappings
InitModuleLists(n) ==
    UNION {[1..k -> {NewDict(nm) : nm \in NameValues}] : k \in 0..n}

\* what an operation recorded: the call, its arguments and its result, the
\* string last stored by a successful write of manifest.id, and the string
\* the last successful read of manifest.id returned since that write
Record(op, value, w, position, name, res) ==
    [op |-> op, value |-> value, w |-> w, position |-> position, name |-> name,
     res |-> res,
     id_written |-> IF op = "id=" /\ ~IsRaise(res) THEN value ELSE last.id_written,
     id_read |-> IF op = "id" /\ ~IsRaise(res) THEN res
                 ELSE IF op = "id=" /\ ~IsRaise(res) THEN NoneV
                 ELSE last.id_read]

\* the raw document with these values under its four keys
Document(i, a, b, m) ==
    [k \in {MANIFEST_ID, MANIFEST_APP_ID, MANIFEST_BRANCH, MANIFEST_MODULES} |->
       CASE k = MANIFEST_ID -> i
         [] k = MANIFEST_APP_ID -> a
         [] k = MANIFEST_BRANCH -> b
         [] OTHER -> m]

\* before Manifest(data): a raw document whose id, app-id and branch are drawn
\* from the given sets and whose modules are missing, of the wrong type, or a
\* list of at most n module mappings
InitWith(ids, appids, branches, n) ==
    /\ pc = "new"
    /\ \E i \in ids, a \in appids, b \in branches :
         \/ /\ \E m \in {Absent, Str("x")} : data = Document(i, a, b, m)
            /\ lists = <<>>
            /\ dicts = <<>>
         \/ /\ data = Document(i, a, b, List(1))
            /\ \E ds \in InitModuleLists(n) :
                 /\ dicts = ds
                 /\ lists = <<[j \in 1..Len(ds) |-> j]>>
    /\ wrappers = <<>>
    /\ _id = NoneV
    /\ _modules = NoneV
    /\ _raw_modules = NoneV
    /\ _init_module = NoneV
    /\ _finish_module = NoneV
    /\ last = [op |-> "none", value |-> NoneV, w |-> 0, position |-> NoneV,
               name |-> "", res |-> NoneV, id_written |-> NoneV,
               id_read |-> NoneV]

Init == InitWith(IdValues, AppIdValues, BranchValues, MaxInitModules)

\* the state after a call that returned r, and the record of the call
Commit(r, rec) ==
    /\ data' = r.s.data
    /\ lists' = r.s.lists
    /\ dicts' = r.s.dicts
    /\ wrappers' = r.s.wrappers
    /\ _id' = r.s._id
    /\ _modules' = r.s._modules
    /\ _raw_modules' = r.s._raw_modules
    /\ _init_module' = r.s._init_module
    /\ _finish_module' = r.s._finish_module
    /\ last' = rec
    /\ UNCHANGED pc

\* Manifest(data)
Construct ==
    /\ pc = "new"
    /\ pc' = IF IsRaise(Manifest_init(data)) THEN "failed" ELSE "ok"
    /\ last' = Record("Manifest", NoneV, 0, NoneV, "", Manifest_init(data))
    /\ UNCHANGED <<data, lists, dicts, wrappers, _id, _modules, _raw_modules,
                   _init_module, _finish_module>>

\* manifest.id
GetId ==
    /\ pc = "ok"
    /\ \E r \in {Manifest_id(Cur)} :
         Commit(r, Record("id", NoneV, 0, NoneV, "", r.res))

\* manifest.id = value
SetId ==
    /\ pc = "ok"
    /\ \E value \in WrittenValues :
         \E r \in {Manifest_id_set(Cur, value)} :
            Commit(r, Record("id=", value, 0, NoneV, "", r.res))

\* manifest.branch
GetBranch ==
    /\ pc = "ok"
    /\ \E r \in {Manifest_branch(Cur)} :
         Commit(r, Record("branch", NoneV, 0, NoneV, "", r.res))

\* manifest.branch = value
SetBranch ==
    /\ pc = "ok"
    /\ \E value \in WrittenValues :
         \E r \in {Manifest_branch_set(Cur, value)} :
            Commit(r, Record("branch=", value, 0, NoneV, "", r.res))

\* manifest.raw_modules
GetRawModules ==
    /\ pc = "ok"
    /\ \E r \in {Manifest_raw_modules(Cur)} :
         Commit(r, Record("raw_modules", NoneV, 0, NoneV, "", r.res))

\* manifest.modules
GetModules ==
    /\ pc = "ok"
    /\ \E r \in {Manifest_modules(Cur)} :
         Commit(r, Record("modules", NoneV, 0, NoneV, "", r.res))

\* manifest.init_module
GetInitModule ==
    /\ pc = "ok"
    /\ \E r \in {Manifest_init_module(Cur)} :
         Commit(r, Record("init_module", NoneV, 0, NoneV, "", r.res))

\* manifest.finish_module
GetFinishModule ==
    /\ pc = "ok"
    /\ \E r \in {Manifest_finish_module(Cur)} :
         Commit(r, Record("finish_module", NoneV, 0, NoneV, "", r.res))

\* the positions add_module is called with: none, and every index from two
\* before the first element to two after the last one of the longest list
Positions == {NoneV} \cup {Num(p) : p \in -(MaxDicts + 2)..(MaxDicts + 2)}

\* manifest.add_module(Module.new(name), position), and with a Module that
\* has no name or a name of the wrong type
AddModule ==
    /\ pc = "ok"
    /\ Len(dicts) < MaxDicts
    /\ \E name \in NameValues, position \in Positions :
         \E m \in {Module_new(Cur, name)} :
            \E r \in {Manifest_add_module(m.s, m.res.w, position)} :
               Commit(r, Record("add_module", name, m.res.w, position, "", r.res))

\* manifest.add_module(Module.new(name)), the position omitted
AppendModule ==
    /\ pc = "ok"
    /\ Len(dicts) < MaxDicts
    /\ \E name \in NameValues :
         \E m \in {Module_new(Cur, name)} :
            \E r \in {Manifest_add_module(m.s, m.res.w, NoneV)} :
               Commit(r, Record("add_module", name, m.res.w, NoneV, "", r.res))

\* manifest.find_module(name)
FindModule ==
    /\ pc = "ok"
    /\ \E name \in SearchedNames :
         \E r \in {Manifest_find_module(Cur, name)} :
            Commit(r, Record("find_module", NoneV, 0, NoneV, name, r.res))

\* module.name, for a Module the caller holds
GetName ==
    /\ pc = "ok"
    /\ \E w \in 1..Len(wrappers) :
         \E r \in {[res |-> Module_name(Cur, w), s |-> Cur]} :
            Commit(r, Record("name", NoneV, w, NoneV, "", r.res))

\* module.name = value
SetName ==
    /\ pc = "ok"
    /\ \E w \in 1..Len(wrappers), value \in WrittenNames :
         \E r \in {Module_name_set(Cur, w, value)} :
            Commit(r, Record("name=", value, w, NoneV, "", r.res))

\* module.sources
GetSources ==
    /\ pc = "ok"
    /\ \E w \in 1..Len(wrappers) :
         \E r \in {Module_sources(Cur, w)} :
            Commit(r, Record("sources", NoneV, w, NoneV, "", r.res))

\* the keys of the raw document a caller changes behind the wrapper, and the
\* values it stores there; Absent deletes the key
RawKeys == {MANIFEST_ID, MANIFEST_APP_ID, MANIFEST_BRANCH}
RawValues == {Absent, Str("org.d")}

\* manifest.data[key] = value, or del manifest.data[key]: the caller changes
\* the raw document directly
RawSet ==
    /\ pc = "ok"
    /\ \E key \in RawKeys, value \in RawValues :
         /\ data' = [data EXCEPT ![key] = value]
         /\ last' = Record("data[]=", value, 0, NoneV, key, NoneV)
    /\ UNCHANGED <<pc, lists, dicts, wrappers, _id, _modules, _raw_modules,
                   _init_module, _finish_module>>

\* del manifest.data['modules'][i]: the caller removes a mapping from the raw
\* modules list directly; the wrapper list keeps its wrapper
RawRemoveModule ==
    /\ pc = "ok"
    /\ data[MANIFEST_MODULES].t = "list"
    /\ \E i \in 1..Len(lists[data[MANIFEST_MODULES].l]) :
         /\ lists' = [lists EXCEPT ![data[MANIFEST_MODULES].l] = RemoveAt(@, i)]
         /\ last' = Record("del modules[]", NoneV, 0, Num(i - 1), "", NoneV)
    /\ UNCHANGED <<pc, data, dicts, wrappers, _id, _modules, _raw_modules,
                   _init_module, _finish_module>>

\* the source descriptions a caller appends to a sources list
SourceItems == {1}

\* module.sources.append(item): the caller changes the list the read returned
AppendSource ==
    /\ pc = "ok"
    /\ \E w \in 1..Len(wrappers), item \in SourceItems :
         \E r \in {Module_sources(Cur, w)} :
            IF IsRaise(r.res)
              THEN Commit(r, Record("sources.append", Num(item), w, NoneV, "", r.res))
              ELSE /\ Len(r.s.lists[r.res.l]) < MaxSources
                   /\ Commit([r EXCEPT !.s.lists[r.res.l] = Append(@, item)],
                             Record("sources.append", Num(item), w, NoneV, "", r.res))

Next ==
    \/ Construct
    \/ GetId
    \/ SetId
    \/ GetBranch
    \/ SetBranch
    \/ GetRawModules
    \/ GetModules
    \/ GetInitModule
    \/ GetFinishModule
    \/ AddModule
    \/ FindModule
    \/ GetName
    \/ SetName
    \/ GetSources
    \/ AppendSource
    \/ RawSet
    \/ RawRemoveModule
    \/ AppendModule

Spec == Init /\ [][Next]_vars

\* The id and branch accessors read and write data['id'], data['app-id'],
\* data['branch'] and _id only, and the module operations never touch those:
\* the two halves are explored apart, each over every value of its own half.

InitIds == InitWith(IdValues, AppIdValues, BranchValues, 0)

NextIds ==
    \/ Construct
    \/ GetId
    \/ SetId
    \/ GetBranch
    \/ SetBranch
    \/ GetRawModules
    \/ GetModules

SpecIds == InitIds /\ [][NextIds]_vars

InitModules == InitWith({Str("org.a")}, {Absent}, {Absent}, MaxInitModules)

NextModules ==
    \/ Construct
    \/ GetRawModules
    \/ GetModules
    \/ GetInitModule
    \/ GetFinishModule
    \/ AddModule
    \/ FindModule
    \/ GetName
    \/ SetName

SpecModules == InitModules /\ [][NextModules]_vars

\* The three validated writes together, over documents of both halves.

InitWrites == InitWith({Absent, Str("org.a")}, {Absent, Str("org.b")},
                       {Absent, Str("dev")}, MaxInitModules)

NextWrites ==
    \/ Construct
    \/ GetId
    \/ SetId
    \/ SetBranch
    \/ GetModules
    \/ SetName

SpecWrites == InitWrites /\ [][NextWrites]_vars

\* The id and branch accessors over a raw document that the caller also
\* changes directly.

InitRaw == InitWith(IdValues, AppIdValues, BranchValues, 0)

NextRaw ==
    \/ Construct
    \/ GetId
    \/ SetId
    \/ GetBranch
    \/ SetBranch
    \/ RawSet

SpecRaw == InitRaw /\ [][NextRaw]_vars

\* The memoized init and finish modules over a raw modules list from which
\* the caller also removes mappings directly; every module of the list has
\* been added or created through the wrapper.

InitStale == InitWith({Str("org.a")}, {Absent}, {Absent}, 0)

NextStale ==
    \/ Construct
    \/ GetInitModule
    \/ GetFinishModule
    \/ AddModule
    \/ RawRemoveModule

SpecStale == InitStale /\ [][NextStale]_vars

\* The two reads init_module and finish_module, with modules appended in
\* between, on documents that hold no module named 'init' or 'finish'.

InitBookends ==
    /\ InitWith({Str("org.a")}, {Absent}, {Absent}, MaxInitModules)
    /\ \A j \in 1..Len(dicts) :
         dicts[j][MODULE_NAME] \notin {Str(INIT_MODULE_NAME), Str(FINISH_MODULE_NAME)}

NextBookends ==
    \/ Construct
    \/ GetInitModule
    \/ GetFinishModule
    \/ AppendModule

SpecBookends == InitBookends /\ [][NextBookends]_vars

\* The sources of the modules: documents whose modules hold no 'sources' key,
\* a value that is no list, or a list that is empty or holds one item.

\* values found under a module's 'sources'; the list of the j-th module is
\* lists[j + 1]
SourcesValues(j) == {Absent, Str("x"), List(j + 1)}

InitSources ==
    /\ pc = "new"
    /\ data = Document(Str("org.a"), Absent, Absent, List(1))
    /\ \E n \in 0..MaxInitModules :
         \E nms \in [1..n -> NameValues],
            svs \in [1..n -> UNION {SourcesValues(j) : j \in 1..n}],
            items \in [1..n -> {<<>>} \cup {<<i>> : i \in SourceItems}] :
            /\ \A j \in 1..n : svs[j] \in SourcesValues(j)
            /\ \A j \in 1..n : svs[j].t # "list" => items[j] = <<>>
            /\ dicts = [j \in 1..n |->
                          [k \in {MODULE_NAME, MODULE_SOURCES} |->
                             IF k = MODULE_NAME THEN nms[j] ELSE svs[j]]]
            /\ lists = <<[j \in 1..n |-> j]>> \o items
    /\ wrappers = <<>>
    /\ _id = NoneV
    /\ _modules = NoneV
    /\ _raw_modules = NoneV
    /\ _init_module = NoneV
    /\ _finish_module = NoneV
    /\ last = [op |-> "none", value |-> NoneV, w |-> 0, position |-> NoneV,
               name |-> "", res |-> NoneV, id_written |-> NoneV,
               id_read |-> NoneV]

NextSources ==
    \/ Construct
    \/ GetModules
    \/ GetSources
    \/ AppendSource

SpecSources == InitSources /\ [][NextSources]_vars

----------------------------------------------------------------------------
(* Properties *)

\* the key is in the mapping
Has(d, key) == d[key] # Absent

\* the first wrapper of the module sequence of s whose mapping holds exactly
\* the string name under 'name', or NoneV when there is none
FirstNamed(s, name) ==
    LET ms == s._modules.ws
        hits == {i \in 1..Len(ms) : ModuleData(s, ms[i])[MODULE_NAME] = Str(name)}
    IN IF hits = {} THEN NoneV
       ELSE ModuleRef(ms[CHOOSE i \in hits : \A j \in hits : i <= j])

\* the wrapper state and the raw document, without the record of the call
objects == <<data, lists, dicts, wrappers,
             _id, _modules, _raw_modules, _init_module, _finish_module>>

\* C1: once the module sequences are materialized, the wrapper sequence and
\* the raw sequence have the same length, the i-th wrapper wraps the i-th raw
\* mapping, and the raw sequence is the list stored under data['modules'].
C1_LockStep ==
    (_modules # NoneV \/ _raw_modules # NoneV) =>
        /\ _modules # NoneV
        /\ _raw_modules # NoneV
        /\ _raw_modules = data[MANIFEST_MODULES]
        /\ Len(_modules.ws) = Len(lists[_raw_modules.l])
        /\ \A i \in 1..Len(_modules.ws) :
             wrappers[_modules.ws[i]] = lists[_raw_modules.l][i]

\* an add_module at an explicit position has put a module in front of the
\* memoized init module
C1_Witness ==
    /\ last.op = "add_module"
    /\ last.position = Num(0)
    /\ _modules # NoneV
    /\ Len(_modules.ws) >= 2
    /\ _modules.ws[1] = last.w
    /\ _init_module = ModuleRef(_modules.ws[2])

\* C2: on a document holding only the legacy key 'app-id', with a string,
\* reading id returns that string.
C2_LegacyIdRead ==
    (/\ last.op = "id"
     /\ ~Has(data, MANIFEST_ID)
     /\ data[MANIFEST_APP_ID].t = "str") => last.res = data[MANIFEST_APP_ID]

\* C3: on a document whose 'id' holds a non-string and that has no 'app-id',
\* reading id raises the TypeError of the lookup of 'id'.
C3_PrimaryTypeError ==
    (/\ last.op = "id"
     /\ Has(data, MANIFEST_ID)
     /\ data[MANIFEST_ID].t # "str"
     /\ ~Has(data, MANIFEST_APP_ID)) => last.res = Raise("TypeError", MANIFEST_ID)

\* C4: on a document with neither 'id' nor 'app-id', reading id raises the
\* missing-field error: it raises no TypeError and returns no value.
C4_MissingId ==
    (/\ last.op = "id"
     /\ ~Has(data, MANIFEST_ID)
     /\ ~Has(data, MANIFEST_APP_ID)) => last.res.t = "MissingFieldError"

\* an id read on a document without either id key has raised
C4_Witness ==
    /\ last.op = "id"
    /\ ~Has(data, MANIFEST_ID)
    /\ ~Has(data, MANIFEST_APP_ID)
    /\ IsRaise(last.res)

\* C5: find_module(name) raises nothing on modules whose name is absent or
\* not a string: it returns the first module whose name is the given string,
\* and None when there is none.
C5_FindSkips ==
    (last.op = "find_module" /\ _modules # NoneV) =>
        last.res = FirstNamed(Cur, last.name)

\* C6: the constructor fails exactly when the document holds both 'id' and
\* 'app-id'; it raises no TypeError, and a TypeError of a typed read names a
\* key of that accessor that holds a value of the wrong type.
C6_Construction ==
    /\ pc # "new" =>
         (pc = "failed" <=> (Has(data, MANIFEST_ID) /\ Has(data, MANIFEST_APP_ID)))
    /\ last.op = "Manifest" => last.res.t \in {"none", "ValueError"}
    /\ (last.res.t = "TypeError" /\ last.op \in {"id", "branch", "modules", "raw_modules"}) =>
         /\ last.op = "id" => last.res.key \in {MANIFEST_ID, MANIFEST_APP_ID}
         /\ last.op = "branch" => last.res.key = MANIFEST_BRANCH
         /\ last.op \in {"modules", "raw_modules"} => last.res.key = MANIFEST_MODULES
         /\ Has(data, last.res.key)
         /\ data[last.res.key].t # (IF last.res.key = MANIFEST_MODULES THEN "list" ELSE "str")

\* a document whose id, branch and modules all have the wrong type has been
\* constructed
C6_Witness ==
    /\ pc = "ok"
    /\ last.op = "Manifest"
    /\ data[MANIFEST_ID] = Num(5)
    /\ data[MANIFEST_BRANCH] = Num(5)
    /\ data[MANIFEST_MODULES] = Str("x")

\* C7: after a write id = x of a string x the document holds x under 'id' and
\* has no 'app-id', and an id read returns x.
C7_IdWrite ==
    last.id_written # NoneV =>
        /\ data[MANIFEST_ID] = last.id_written
        /\ ~Has(data, MANIFEST_APP_ID)
        /\ last.op = "id" => last.res = last.id_written

\* an id read after a write of the empty string, which the cache test takes
\* for unset
C7_Witness ==
    /\ last.op = "id"
    /\ last.id_written = Str("")
    /\ last.res = Str("")

\* C8: a write of a non-string to Manifest.id, Manifest.branch or Module.name
\* raises TypeError and changes neither the raw mappings nor the cached state.
C8_RejectedWrite ==
    [][(last'.op \in {"id=", "branch=", "name="} /\ last'.value.t # "str") =>
          (last'.res.t = "TypeError" /\ UNCHANGED objects)]_vars

\* a non-string has been written to the name of a module of the document
C8_Witness ==
    /\ last.op = "name="
    /\ last.value = Num(5)
    /\ last.res.t = "TypeError"
    /\ _modules # NoneV
    /\ Len(_modules.ws) > 0

\* the raw modules sequence of the document of s: the list under
\* data['modules'], empty while the key is missing
RawModules(s) ==
    IF s.data[MANIFEST_MODULES].t = "list"
      THEN s.lists[s.data[MANIFEST_MODULES].l]
      ELSE <<>>

\* some mapping of the raw modules sequence of s holds the string name under
\* 'name'
HasNamed(s, name) ==
    \E i \in 1..Len(RawModules(s)) :
        s.dicts[RawModules(s)[i]][MODULE_NAME] = Str(name)

\* C9: a read of init_module after the first returns the memoized wrapper and
\* inserts nothing; a first read on a document with no module named 'init'
\* returns a new module whose mapping is then the first element of the raw
\* modules sequence, which has grown by that one element.
C9_InitModuleTwice ==
    [][(last'.op = "init_module" /\ data[MANIFEST_MODULES].t \in {"absent", "list"}) =>
          IF _init_module # NoneV
            THEN last'.res = _init_module /\ UNCHANGED objects
            ELSE ~HasNamed(Cur, INIT_MODULE_NAME) =>
                   /\ last'.res.t = "Module"
                   /\ last'.res = _init_module'
                   /\ RawModules(Cur') =
                        <<wrappers'[last'.res.w]>> \o RawModules(Cur)]_vars

\* C10 as claimed: at every point the memoized init module is the first
\* module named 'init' and the memoized finish module is the first module
\* named 'finish'.
C10_AlwaysFirst ==
    /\ _init_module # NoneV => _init_module = FirstNamed(Cur, INIT_MODULE_NAME)
    /\ _finish_module # NoneV => _finish_module = FirstNamed(Cur, FINISH_MODULE_NAME)

\* C10 as amended: the read that resolves init_module (finish_module) returns
\* the module that is then the first one named 'init' ('finish'); the
\* reference is memoized and never changes, and every later read returns it.
C10_FirstWhenResolved ==
    [][/\ (last'.op = "init_module" /\ ~IsRaise(last'.res)) =>
            /\ last'.res = _init_module'
            /\ _init_module = NoneV =>
                 last'.res = FirstNamed(Cur', INIT_MODULE_NAME)
       /\ (last'.op = "finish_module" /\ ~IsRaise(last'.res)) =>
            /\ last'.res = _finish_module'
            /\ _finish_module = NoneV =>
                 last'.res = FirstNamed(Cur', FINISH_MODULE_NAME)
       /\ _init_module # NoneV => _init_module' = _init_module
       /\ _finish_module # NoneV => _finish_module' = _finish_module]_vars

\* a read of init_module has returned the memoized module although another
\* module named 'init' now precedes it
C10_Witness ==
    /\ last.op = "init_module"
    /\ last.res = _init_module
    /\ FirstNamed(Cur, INIT_MODULE_NAME) # NoneV
    /\ FirstNamed(Cur, INIT_MODULE_NAME) # _init_module
    /\ ModuleData(Cur, _init_module.w)[MODULE_NAME] = Str(INIT_MODULE_NAME)

\* the wrapper sequence of s holds the wrappers it held in state s0 in front
\* of its last element: every earlier wrapper when s0 had materialized them,
\* and otherwise one wrapper for each raw mapping of s0
KeptInFront(s0, s) ==
    /\ Len(s._modules.ws) = Len(RawModules(s0)) + 1
    /\ s0._modules # NoneV =>
         SubSeq(s._modules.ws, 1, Len(s._modules.ws) - 1) = s0._modules.ws
    /\ \A i \in 1..Len(RawModules(s0)) :
         s.wrappers[s._modules.ws[i]] = RawModules(s0)[i]

\* C11: on a document with no module named 'finish', the first read of
\* finish_module returns a new module that is then the last element of the
\* raw sequence and of the wrapper sequence, behind the elements the two
\* sequences held, which keep their order; the modules list may be empty.
C11_FinishAppended ==
    [][(/\ last'.op = "finish_module"
        /\ data[MANIFEST_MODULES].t \in {"absent", "list"}
        /\ _finish_module = NoneV
        /\ ~HasNamed(Cur, FINISH_MODULE_NAME)) =>
          /\ last'.res.t = "Module"
          /\ last'.res = _finish_module'
          /\ ModuleData(Cur', last'.res.w)[MODULE_NAME] = Str(FINISH_MODULE_NAME)
          /\ RawModules(Cur') = Append(RawModules(Cur), wrappers'[last'.res.w])
          /\ _modules'.ws[Len(_modules'.ws)] = last'.res.w
          /\ KeptInFront(Cur, Cur')]_vars

\* the mappings wrapped by the wrappers of the wrapper sequence of s, in order
WrappedSeq(s) == [i \in 1..Len(s._modules.ws) |-> s.wrappers[s._modules.ws[i]]]

\* the step has put the mapping of module last'.w at the j-th place of the raw
\* sequence and the module at the j-th place of the wrapper sequence, and the
\* other elements of both sequences are the earlier ones in their order
InsertedBoth(j) ==
    /\ j \in 1..Len(RawModules(Cur'))
    /\ RawModules(Cur')[j] = wrappers'[last'.w]
    /\ RemoveAt(RawModules(Cur'), j) = RawModules(Cur)
    /\ j \in 1..Len(_modules'.ws)
    /\ _modules'.ws[j] = last'.w
    /\ _modules # NoneV => RemoveAt(_modules'.ws, j) = _modules.ws
    /\ WrappedSeq(Cur') = RawModules(Cur')

\* the index list.insert(p, x) gives x in a list of n elements, from 0
InsertIndex(p, n) ==
    IF p < 0 THEN (IF n + p < 0 THEN 0 ELSE n + p) ELSE (IF p > n THEN n ELSE p)

C13_EnsureList ==
    [][last'.op = "sources" =>
         LET d == wrappers[last'.w]
             value == dicts[d][MODULE_SOURCES]
         IN /\ value = Absent =>
                 /\ last'.res = List(Len(lists) + 1)
                 /\ lists' = Append(lists, <<>>)
                 /\ dicts' = [dicts EXCEPT ![d][MODULE_SOURCES] = last'.res]
            /\ value.t = "list" =>
                 /\ last'.res = value
                 /\ UNCHANGED objects
            /\ value.t \notin {"absent", "list"} =>
                 /\ last'.res = Raise("TypeError", MODULE_SOURCES)
                 /\ UNCHANGED objects
            /\ ~IsRaise(last'.res) =>
                 ensure_list(dicts'[d], MODULE_SOURCES, lists') =
                     [res |-> last'.res, dictionary |-> dicts'[d], lists |-> lists']]_vars

\* a list that a read of sources created has been returned by a later read,
\* with the item appended to it in between
C13_Witness ==
    /\ last.op = "sources"
    /\ last.res.t = "list"
    /\ last.res.l > Len(dicts) + 1
    /\ lists[last.res.l] # <<>>

\* C18: a read of sources on a module without a 'sources' key stores an empty
\* list in the module's mapping, which is a mapping of the raw document's
\* modules list; a later read returns that same list, and an item appended
\* to the list a read returned is the last item of the list under
\* data['modules'][i]['sources'].
C18_LiveSources ==
    [][(last'.op \in {"sources", "sources.append"} /\ ~IsRaise(last'.res)) =>
         /\ \E i \in 1..Len(RawModules(Cur')) :
              /\ RawModules(Cur')[i] = wrappers'[last'.w]
              /\ dicts'[lists'[data'[MANIFEST_MODULES].l][i]][MODULE_SOURCES] = last'.res
         /\ (last'.op = "sources" /\ dicts[wrappers[last'.w]][MODULE_SOURCES] = Absent) =>
              lists'[last'.res.l] = <<>>
         /\ dicts[wrappers[last'.w]][MODULE_SOURCES].t = "list" =>
              last'.res = dicts[wrappers[last'.w]][MODULE_SOURCES]
         /\ last'.op = "sources.append" =>
              /\ Len(lists'[last'.res.l]) > 0
              /\ lists'[last'.res.l][Len(lists'[last'.res.l])] = last'.value.n]_vars

\* an item has been appended to the list that a read of sources stored in a
\* module that had no 'sources' key, and is in the raw document
C18_Witness ==
    /\ last.op = "sources.append"
    /\ last.res.t = "list"
    /\ last.res.l > Len(dicts) + 1
    /\ data[MANIFEST_MODULES].t = "list"
    /\ \E i \in 1..Len(RawModules(Cur)) :
         /\ dicts[RawModules(Cur)[i]][MODULE_SOURCES] = last.res
         /\ lists[dicts[RawModules(Cur)[i]][MODULE_SOURCES].l] = <<last.value.n>>

\* C14: the first read of modules or raw_modules on a document without a
\* 'modules' key stores an empty list under the key; once the sequences are
\* materialized a read of modules returns the cached wrapper list and a read
\* of raw_modules the cached raw list, which no operation replaces, and the
\* read changes nothing; on a 'modules' value that is no list the read raises
\* TypeError and caches neither sequence.
C14_ModulesCached ==
    [][/\ last'.op \in {"modules", "raw_modules"} =>
            /\ (_modules = NoneV /\ data[MANIFEST_MODULES] = Absent) =>
                 /\ data'[MANIFEST_MODULES].t = "list"
                 /\ data'[MANIFEST_MODULES].l \notin 1..Len(lists)
                 /\ lists'[data'[MANIFEST_MODULES].l] = <<>>
                 /\ _raw_modules' = data'[MANIFEST_MODULES]
                 /\ _modules' = WrapperList(<<>>)
            /\ _modules # NoneV => UNCHANGED objects
            /\ (_modules = NoneV /\ data[MANIFEST_MODULES].t \notin {"absent", "list"}) =>
                 /\ last'.res = Raise("TypeError", MANIFEST_MODULES)
                 /\ _modules' = NoneV
                 /\ _raw_modules' = NoneV
                 /\ UNCHANGED objects
            /\ ~IsRaise(last'.res) =>
                 last'.res = (IF last'.op = "modules" THEN _modules' ELSE _raw_modules')
       /\ _raw_modules # NoneV => _raw_modules' = _raw_modules
       /\ _modules # NoneV => _modules' # NoneV]_vars

\* a read of raw_modules has returned the cached list, which is the list
\* under data['modules'], after add_module has put a module in it
C14_Witness ==
    /\ last.op = "raw_modules"
    /\ _modules # NoneV
    /\ Len(_modules.ws) >= 1
    /\ last.res = _raw_modules
    /\ last.res = data[MANIFEST_MODULES]
    /\ Len(lists[last.res.l]) = Len(_modules.ws)

\* C15: once a read of id has returned a string, the empty one included,
\* every later read returns that string and changes nothing, whatever the
\* caller has stored under 'id' and 'app-id' of the raw document, until id is
\* written through the wrapper.
C15_IdCached ==
    [][(last'.op = "id" /\ last.id_read # NoneV) =>
          (last'.res = last.id_read /\ UNCHANGED objects)]_vars

\* C17: a read of branch returns the string under 'branch', and 'master' when
\* the key is missing, and changes nothing: it adds no 'branch' key and
\* caches nothing, so that it returns the value a write through the wrapper
\* or a direct change of the raw document has stored last.
C17_BranchUncached ==
    [][/\ last'.op = "branch" =>
            /\ UNCHANGED objects
            /\ data[MANIFEST_BRANCH] = Absent =>
                 last'.res = Str(MANIFEST_BRANCH_DEFAULT)
            /\ data[MANIFEST_BRANCH].t = "str" => last'.res = data[MANIFEST_BRANCH]
       /\ (last'.op = "branch=" /\ ~IsRaise(last'.res)) =>
            data'[MANIFEST_BRANCH] = last'.value
       /\ (last'.op = "data[]=" /\ last'.name = MANIFEST_BRANCH) =>
            data'[MANIFEST_BRANCH] = last'.value]_vars

\* a read of branch has returned the string that the caller stored under
\* 'branch' of the raw document directly
C17_Witness ==
    /\ last.op = "branch"
    /\ last.res = Str("org.d")
    /\ data[MANIFEST_BRANCH] = Str("org.d")

\* C16: once init_module (finish_module) is resolved, every later read
\* returns the memoized wrapper and changes nothing: it inserts nothing into
\* either module sequence, also when the module's mapping is no longer in
\* the raw modules list because the caller removed it there.
C16_StaleMemo ==
    [][/\ (last'.op = "init_module" /\ _init_module # NoneV) =>
            (last'.res = _init_module /\ UNCHANGED objects)
       /\ (last'.op = "finish_module" /\ _finish_module # NoneV) =>
            (last'.res = _finish_module /\ UNCHANGED objects)]_vars

\* a read of init_module has returned the memoized wrapper whose mapping the
\* caller had removed from the raw modules list
C16_Witness ==
    /\ last.op = "init_module"
    /\ _init_module # NoneV
    /\ last.res = _init_module
    /\ \A i \in 1..Len(RawModules(Cur)) : RawModules(Cur)[i] # wrappers[_init_module.w]

\* C20: find_module changes nothing but what the first materialization of the
\* module sequences changes: whether it returns a module, returns None or
\* raises, the raw sequence holds the same mappings in the same order, every
\* mapping is unchanged, the memoized init and finish references are
\* unchanged, and once the sequences are materialized nothing changes at all.
C20_FindFrame ==
    [][last'.op = "find_module" =>
         /\ dicts' = dicts
         /\ RawModules(Cur') = RawModules(Cur)
         /\ _init_module' = _init_module
         /\ _finish_module' = _finish_module
         /\ _id' = _id
         /\ _modules # NoneV => UNCHANGED objects
         /\ _modules = NoneV => Cur' = process_modules(Cur).s]_vars

\* find_module has returned a module named 'init' on a document of two
\* modules, and no init module is memoized
C20_Witness ==
    /\ last.op = "find_module"
    /\ last.name = INIT_MODULE_NAME
    /\ last.res.t = "Module"
    /\ _init_module = NoneV
    /\ _finish_module = NoneV
    /\ Len(_modules.ws) = 2

\* the places of the raw modules sequence of s whose mapping holds the string
\* name under 'name'
PlacesNamed(s, name) ==
    {i \in 1..Len(RawModules(s)) : s.dicts[RawModules(s)[i]][MODULE_NAME] = Str(name)}

\* C19: on a document that held no module named 'init' or 'finish', with
\* modules appended by add_module between the reads, the first read of
\* init_module and the first read of finish_module each return a module and
\* grow the raw sequence by one, and when both are resolved the init module's
\* mapping is the first of the raw sequence, which holds one module named
\* 'init' and one named 'finish'.
C19_Bookends ==
    [][(/\ data[MANIFEST_MODULES].t \in {"absent", "list"}
        /\ \/ last'.op = "init_module" /\ _init_module = NoneV
           \/ last'.op = "finish_module" /\ _finish_module = NoneV) =>
          /\ last'.res.t = "Module"
          /\ Len(RawModules(Cur')) = Len(RawModules(Cur)) + 1
          /\ (_init_module' # NoneV /\ _finish_module' # NoneV) =>
               /\ RawModules(Cur')[1] = wrappers'[_init_module'.w]
               /\ Cardinality(PlacesNamed(Cur', INIT_MODULE_NAME)) = 1
               /\ Cardinality(PlacesNamed(Cur', FINISH_MODULE_NAME)) = 1]_vars

====
